---- MODULE Spec2Model ----
(***************************************************************************)
(* pyrad.proc.process_aux: the operation registry (get_process_type), the  *)
(* pass-through routines (process_raw, process_save_radar) and the point   *)
(* extraction (process_point_measurement), driven through the three-phase  *)
(* lifecycle (procstatus 0 = INIT, 1 = PROCESS, 2 = POST).                 *)
(*                                                                         *)
(* Angles are whole degrees and ranges whole metres.  Python indexes from  *)
(* 0, the sequences here from 1: "lowest index" means the same in both.    *)
(* Objects live in a heap of addresses, so that a copy and an alias of a   *)
(* Radar object are different things.                                      *)
(***************************************************************************)
EXTENDS Integers, Sequences, FiniteSets, TLC

VARIABLES
    stage,        \* driver position: "config", "ready", "returned", "halted"
    dataset_type, \* the name handed to get_process_type
    func_name,    \* get_process_type's first return value
    dsformat,     \* get_process_type's second return value
    procstatus,   \* phase of the current (last) routine invocation, -1 before any
    dscfg,        \* configuration of the current invocation
    radar,        \* address of the Radar object handed to the routine
    heap,         \* address -> Radar object (or Free)
    geo,          \* what the pyart coordinate transforms yield for this invocation
    result,       \* what the invocation returned
    warnings,     \* diagnostics emitted through warn(), in order
    raised,       \* the exception that left the invocation, if any
    radar0,       \* the input Radar object as it was when the routine was called
    writes,       \* caller's writes into the returned Radar object since the return
    prev          \* the previous PROCESS invocation of this step (lifecycle log)

vars == <<stage, dataset_type, func_name, dsformat, procstatus, dscfg, radar,
          heap, geo, result, warnings, raised, radar0, writes, prev>>

-----------------------------------------------------------------------------
(* Bounds of the model *)

MaxRays == 2
MaxBins == 2

-----------------------------------------------------------------------------
(* Python values *)

None == [kind |-> "None"]
Free == [kind |-> "Free"]

Abs(x) == IF x < 0 THEN -x ELSE x

SeqsUpTo(S, n) == UNION {[1..k -> S] : k \in 1..n}

\* np.min over a non-empty array
np_min(a) == CHOOSE m \in {a[k] : k \in 1..Len(a)} : \A k \in 1..Len(a) : m <= a[k]

\* np.argmin: the first index of the minimum
np_argmin(a) ==
    CHOOSE i \in 1..Len(a) :
        /\ a[i] = np_min(a)
        /\ \A k \in 1..(i-1) : a[k] # np_min(a)

\* np.abs(array - scalar)
AbsDiff(a, x) == [k \in 1..Len(a) |-> Abs(a[k] - x)]

\* array + array, element by element
ArrAdd(a, b) == [k \in 1..Len(a) |-> a[k] + b[k]]

-----------------------------------------------------------------------------
(* The names bound in the module's namespace: the imports of lines 19-28   *)
(* and the four functions the module defines.                              *)

ModuleNames ==
    {"deepcopy", "warn", "np", "pyart", "get_datatype_fields",
     "get_fieldname_pyart", "num2date", "get_process_type", "process_raw",
     "process_save_radar", "process_point_measurement"}

NameError(name) == [kind |-> "NameError", name |-> name]

-----------------------------------------------------------------------------
(* get_process_type *)

\* the if/elif chain: the function name of a data set type, None in the else
func_name_of(t) ==
    IF t = "RAW" THEN "process_raw"
    ELSE IF t = "NCVOL" THEN "process_save_radar"
    ELSE IF t = "PWR" THEN "process_signal_power"
    ELSE IF t = "SNR" THEN "process_snr"
    ELSE IF t = "RHOHV_CORRECTION" THEN "process_correct_noise_rhohv"
    ELSE IF t = "BIAS_CORRECTION" THEN "process_correct_bias"
    ELSE IF t = "L" THEN "process_l"
    ELSE IF t = "CDR" THEN "process_cdr"
    ELSE IF t = "SAN" THEN "process_echo_id"
    ELSE IF t = "ECHO_FILTER" THEN "process_echo_filter"
    ELSE IF t = "SNR_FILTER" THEN "process_filter_snr"
    ELSE IF t = "VIS_FILTER" THEN "process_filter_visibility"
    ELSE IF t = "PHIDP0_ESTIMATE" THEN "process_estimate_phidp0"
    ELSE IF t = "PHIDP0_CORRECTION" THEN "process_correct_phidp0"
    ELSE IF t = "PHIDP_SMOOTH_1W" THEN "process_smooth_phidp_single_window"
    ELSE IF t = "PHIDP_SMOOTH_2W" THEN "process_smooth_phidp_double_window"
    ELSE IF t = "PHIDP_KDP_MAESAKA" THEN "process_phidp_kdp_Maesaka"
    ELSE IF t = "PHIDP_KDP_LP" THEN "process_phidp_kdp_lp"
    ELSE IF t = "KDP_LEASTSQUARE_1W" THEN "process_kdp_leastsquare_single_window"
    ELSE IF t = "KDP_LEASTSQUARE_2W" THEN "process_kdp_leastsquare_double_window"
    ELSE IF t = "ATTENUATION" THEN "process_attenuation"
    ELSE IF t = "RAINRATE" THEN "process_rainrate"
    ELSE IF t = "HYDROCLASS" THEN "process_hydroclass"
    ELSE IF t = "SELFCONSISTENCY_KDP_PHIDP" THEN "process_selfconsistency_kdp_phidp"
    ELSE IF t = "SELFCONSISTENCY_BIAS" THEN "process_selfconsistency_bias"
    ELSE IF t = "RHOHV_RAIN" THEN "process_rhohv_rain"
    ELSE IF t = "ZDR_RAIN" THEN "process_zdr_rain"
    ELSE IF t = "MONITORING_RHOHV" THEN "process_monitoring_rhohv"
    ELSE IF t = "MONITORING_ZDR" THEN "process_monitoring_zdr"
    ELSE IF t = "SUN_HITS" THEN "process_sun_hits"
    ELSE IF t = "POINT_MEASUREMENT" THEN "process_point_measurement"
    ELSE "None"

\* dsformat_of with a fault: the SUN_HITS branch leaves the format alone
dsformat_of_default(t) ==
    IF t = "POINT_MEASUREMENT" THEN "TIMESERIES" ELSE "VOL"

\* dsformat: 'VOL' unless a branch of the chain overwrites it
dsformat_of(t) ==
    IF t = "SUN_HITS" THEN "SUN_HITS"
    ELSE IF t = "POINT_MEASUREMENT" THEN "TIMESERIES"
    ELSE "VOL"

\* raise ValueError('ERROR: Unknown dataset type '+dataset_type)
UnknownDatasetType(t) ==
    [kind |-> "ValueError", msg |-> <<"ERROR: Unknown dataset type ", t>>]

\* get_process_type with a fault: the else branch falls back to process_raw
get_process_type_fallback(t) ==
    IF func_name_of(t) = "None"
    THEN [func_name |-> "process_raw", dsformat |-> "VOL", raised |-> None]
    ELSE [func_name |-> func_name_of(t), dsformat |-> dsformat_of(t),
          raised |-> None]

get_process_type(t) ==
    IF func_name_of(t) = "None"
    THEN [func_name |-> "None", dsformat |-> "None",
          raised |-> UnknownDatasetType(t)]
    ELSE [func_name |-> func_name_of(t), dsformat |-> dsformat_of(t),
          raised |-> None]

-----------------------------------------------------------------------------
(* Radar objects.  A Radar object is the record of the attributes the      *)
(* routines read: azimuth, elevation and time per ray, range per bin, the  *)
(* fields (name -> [ray][bin] array) and the radar's position.  The        *)
(* ['data'] level of pyart's dictionaries is left out where a dictionary   *)
(* is read for nothing else.                                               *)

RayVals == {<<10, 1>>, <<10, 5>>, <<20, 1>>}
RngVals == {500, 1500}
FieldSets == {{"reflectivity"}, {"reflectivity", "differential_reflectivity"}}

TimeUnits == "seconds since 2016-01-01T00:00:00Z"

FieldBase(f) == IF f = "reflectivity" THEN 100 ELSE 200

MkRadar(rays, rng, fnames) ==
    [azimuth   |-> [i \in 1..Len(rays) |-> rays[i][1]],
     elevation |-> [i \in 1..Len(rays) |-> rays[i][2]],
     range     |-> rng,
     time      |-> [data |-> [i \in 1..Len(rays) |-> 7 * i],
                    units |-> TimeUnits, calendar |-> "gregorian"],
     fields    |-> [f \in fnames |->
                      [i \in 1..Len(rays) |->
                          [j \in 1..Len(rng) |-> FieldBase(f) + 10 * i + j]]],
     longitude |-> 8, latitude |-> 46, altitude |-> 1000]

Radars ==
    {MkRadar(rays, rng, fs) :
        rays \in SeqsUpTo(RayVals, MaxRays), rng \in SeqsUpTo(RngVals, MaxBins),
        fs \in FieldSets}

\* the two-address heap of one invocation: the input object and room for a copy
Addrs == 1..2
HeapWith(v) == [a \in Addrs |-> IF a = 1 THEN v ELSE Free]

FreshAddr(h) ==
    CHOOSE a \in DOMAIN h : h[a] = Free /\ \A b \in DOMAIN h : b < a => h[b] # Free

\* deepcopy with a fault (new_dataset = radar): the same object under a
\* second name
alias_copy(h, a) == [heap |-> h, ref |-> a]

\* copy.deepcopy: a new object with the content of the old one
deepcopy(h, a) ==
    [heap |-> [h EXCEPT ![FreshAddr(h)] = h[a]], ref |-> FreshAddr(h)]

-----------------------------------------------------------------------------
(* The lifecycle guard and the pass-through routines *)

\* not_processing with a fault (procstatus == 0): only INIT is skipped
not_processing_init_only(ps) == ps = 0

\* if procstatus != 1: return None
not_processing(ps) == ps # 1

Out(res, h, w, exc) == [result |-> res, heap |-> h, warnings |-> w, raised |-> exc]

process_raw(ps, cfg, h, a) ==
    IF not_processing(ps) THEN Out(None, h, <<>>, None)
    ELSE LET new_dataset == deepcopy(h, a)
         IN  Out([kind |-> "Radar", ref |-> new_dataset.ref],
                 new_dataset.heap, <<>>, None)

process_save_radar(ps, cfg, h, a) ==
    IF not_processing(ps) THEN Out(None, h, <<>>, None)
    ELSE LET new_dataset == deepcopy(h, a)
         IN  Out([kind |-> "Radar", ref |-> new_dataset.ref],
                 new_dataset.heap, <<>>, None)

-----------------------------------------------------------------------------
(* process_point_measurement *)

\* pyrad.io.io_aux.get_datatype_fields: the parts of a data type descriptor
get_datatype_fields(descr) ==
    [datagroup |-> descr[1], datatype |-> descr[2], dataset |-> None,
     product |-> None]

\* pyrad.io.io_aux.get_fieldname_pyart: the field name of a data type
get_fieldname_pyart(datatype) ==
    IF datatype = "dBZ" THEN "reflectivity"
    ELSE IF datatype = "ZDR" THEN "differential_reflectivity"
    ELSE "unknown"

\* netCDF4.num2date: the instant that lies t units after the units' epoch
num2date(t, units, calendar) ==
    [kind |-> "datetime", epoch |-> units, offset |-> t, calendar |-> calendar]

FieldWarning ==
    [kind |-> "field",
     msg  |-> "Unable to extract point measurement information. Field not available"]

ToleranceWarning(axis, az, el, r, d) ==
    [kind |-> "tolerance", axis |-> axis, az |-> az, el |-> el, r |-> r, d |-> d]

\* lines 251-282: the target as (r, az, el) and as (lon, lat, alt).  In the
\* latlon branch g is what pyart.core.geographic_to_cartesian and
\* cartesian_to_antenna (with the beam height of lines 257-269) yield for the
\* configured point: floating-point trigonometry of a library, which the
\* invocation is handed as any (r, az, el) of Transforms.  In the other branch
\* the two inverse transforms are looked up by their bare names in the
\* module's namespace.
target_coordinates(cfg, g) ==
    IF cfg.latlon
    THEN [raised |-> None, r |-> g.r, az |-> g.az, el |-> g.el,
          lon |-> cfg.lon, lat |-> cfg.lat, alt |-> cfg.alt]
    ELSE IF "antenna_to_cartesian" \notin ModuleNames
         THEN [raised |-> NameError("antenna_to_cartesian")]
         ELSE IF "cartesian_to_geographic" \notin ModuleNames
              THEN [raised |-> NameError("cartesian_to_geographic")]
              ELSE [raised |-> None, r |-> cfg.rng, az |-> cfg.azi,
                    el |-> cfg.ele, lon |-> g.lon, lat |-> g.lat, alt |-> g.alt]

\* d > tolerance
exceeds(d, tol) == d > tol

\* tolerance_gate with a fault: the range is checked first
tolerance_gate_range_first(v, cfg, t) ==
    LET d_az == np_min(AbsDiff(v.azimuth, t.az))
        d_el == np_min(AbsDiff(v.elevation, t.el))
        d_r  == np_min(AbsDiff(v.range, t.r))
    IN  IF exceeds(d_r, cfg.RngTol)
        THEN <<ToleranceWarning("range bin", t.az, t.el, t.r, d_r)>>
        ELSE IF exceeds(d_az, cfg.AziTol)
        THEN <<ToleranceWarning("azimuth", t.az, t.el, t.r, d_az)>>
        ELSE IF exceeds(d_el, cfg.EleTol)
        THEN <<ToleranceWarning("elevation", t.az, t.el, t.r, d_el)>>
        ELSE <<>>

\* tolerance_gate with a fault: the range is not checked
tolerance_gate_no_range(v, cfg, t) ==
    LET d_az == np_min(AbsDiff(v.azimuth, t.az))
        d_el == np_min(AbsDiff(v.elevation, t.el))
    IN  IF exceeds(d_az, cfg.AziTol)
        THEN <<ToleranceWarning("azimuth", t.az, t.el, t.r, d_az)>>
        ELSE IF exceeds(d_el, cfg.EleTol)
        THEN <<ToleranceWarning("elevation", t.az, t.el, t.r, d_el)>>
        ELSE <<>>

\* lines 284-306: the warning of the first check that fails, in the order
\* azimuth, elevation, range; the empty sequence when all three pass
tolerance_gate(v, cfg, t) ==
    LET d_az == np_min(AbsDiff(v.azimuth, t.az))
        d_el == np_min(AbsDiff(v.elevation, t.el))
        d_r  == np_min(AbsDiff(v.range, t.r))
    IN  IF exceeds(d_az, cfg.AziTol)
        THEN <<ToleranceWarning("azimuth", t.az, t.el, t.r, d_az)>>
        ELSE IF exceeds(d_el, cfg.EleTol)
        THEN <<ToleranceWarning("elevation", t.az, t.el, t.r, d_el)>>
        ELSE IF exceeds(d_r, cfg.RngTol)
        THEN <<ToleranceWarning("range bin", t.az, t.el, t.r, d_r)>>
        ELSE <<>>

\* ind_ray with a fault: the ray nearest in azimuth alone
ind_ray_azimuth_only(v, t) == np_argmin(AbsDiff(v.azimuth, t.az))

\* lines 308-309
ind_ray(v, t) ==
    np_argmin(ArrAdd(AbsDiff(v.azimuth, t.az), AbsDiff(v.elevation, t.el)))

\* line 310
ind_r(v, t) == np_argmin(AbsDiff(v.range, t.r))

\* lines 312-329
point_dataset(v, field_name, datatype, t) ==
    [kind     |-> "dict",
     value    |-> v.fields[field_name][ind_ray(v, t)][ind_r(v, t)],
     datatype |-> datatype,
     time     |-> num2date(v.time.data[ind_ray(v, t)], v.time.units,
                           v.time.calendar),
     point_coordinates_WGS84_lon_lat_alt |-> <<t.lon, t.lat, t.alt>>,
     antenna_coordinates_az_el_r         |-> <<t.az, t.el, t.r>>,
     used_antenna_coordinates_az_el_r    |->
         <<v.azimuth[ind_ray(v, t)], v.elevation[ind_ray(v, t)],
           v.range[ind_r(v, t)]>>]

\* lines 246-329, once the field is known to be there
extract_point(v, cfg, g, field_name, datatype, h) ==
    LET t == target_coordinates(cfg, g)
    IN  IF t.raised # None THEN Out(None, h, <<>>, t.raised)
        ELSE IF tolerance_gate(v, cfg, t) # <<>>
        THEN Out(None, h, tolerance_gate(v, cfg, t), None)
        ELSE Out(point_dataset(v, field_name, datatype, t), h, <<>>, None)

\* process_point_measurement with a fault: the field is looked for after
\* the target has been resolved
process_point_measurement_field_late(ps, cfg, h, a, g) ==
    IF not_processing(ps) THEN Out(None, h, <<>>, None)
    ELSE LET datatype   == get_datatype_fields(cfg.datatype[1]).datatype
             field_name == get_fieldname_pyart(datatype)
             t          == target_coordinates(cfg, g)
         IN  IF t.raised # None THEN Out(None, h, <<>>, t.raised)
             ELSE IF field_name \notin DOMAIN h[a].fields
             THEN Out(None, h, <<FieldWarning>>, None)
             ELSE extract_point(h[a], cfg, g, field_name, datatype, h)

process_point_measurement(ps, cfg, h, a, g) ==
    IF not_processing(ps) THEN Out(None, h, <<>>, None)
    ELSE LET datatype   == get_datatype_fields(cfg.datatype[1]).datatype
             field_name == get_fieldname_pyart(datatype)
         IN  IF field_name \notin DOMAIN h[a].fields
             THEN Out(None, h, <<FieldWarning>>, None)
             ELSE extract_point(h[a], cfg, g, field_name, datatype, h)

-----------------------------------------------------------------------------
(* Inputs *)

DatasetTypes ==
    {"RAW", "NCVOL", "PWR", "SNR", "RHOHV_CORRECTION", "BIAS_CORRECTION", "L",
     "CDR", "SAN", "ECHO_FILTER", "SNR_FILTER", "VIS_FILTER", "PHIDP0_ESTIMATE",
     "PHIDP0_CORRECTION", "PHIDP_SMOOTH_1W", "PHIDP_SMOOTH_2W",
     "PHIDP_KDP_MAESAKA", "PHIDP_KDP_LP", "KDP_LEASTSQUARE_1W",
     "KDP_LEASTSQUARE_2W", "ATTENUATION", "RAINRATE", "HYDROCLASS",
     "SELFCONSISTENCY_KDP_PHIDP", "SELFCONSISTENCY_BIAS", "RHOHV_RAIN",
     "ZDR_RAIN", "MONITORING_RHOHV", "MONITORING_ZDR", "SUN_HITS",
     "POINT_MEASUREMENT"}

OtherNames == {"NOT_A_REAL_OP", "raw", "Raw", "POINT", "VOL", ""}

Descriptors == {<<"RAINBOW", "dBZ">>, <<"RAINBOW", "ZDR">>}
DatatypeLists == {<<d>> : d \in Descriptors}

AziTols == {3, 6}
EleTols == {3}
RngTols == {100}
AzQ  == {10, 25}
ElQ  == {1, 4}
RngQ == {500, 1600}

AntennaCfgs ==
    [datatype : DatatypeLists, latlon : {FALSE}, azi : AzQ, ele : ElQ, rng : RngQ,
     AziTol : AziTols, EleTol : EleTols, RngTol : RngTols]

LatLonCfgs ==
    [datatype : DatatypeLists, latlon : {TRUE}, truealt : BOOLEAN,
     lon : {9}, lat : {47}, alt : {3000}, ele : ElQ,
     AziTol : AziTols, EleTol : EleTols, RngTol : RngTols]

PointCfgs == AntennaCfgs \cup LatLonCfgs
RawCfgs == [datatype : DatatypeLists]

\* the values the coordinate transforms can yield for a configuration
Transforms(cfg) ==
    IF cfg.latlon THEN [r : RngQ, az : AzQ, el : ElQ]
    ELSE [lon : {9}, lat : {47}, alt : {3000}]

\* the inputs of the lifecycle specification
LifeRadars ==
    {MkRadar(rays, <<500, 1500>>, fs) :
        rays \in {<<<<10, 1>>, <<10, 5>>>>, <<<<20, 1>>>>}, fs \in FieldSets}
LifePointCfgs ==
    {c \in PointCfgs : c.AziTol = 6 /\ c.ele = 4
                       /\ (c.latlon => c.truealt) /\ (~c.latlon => c.rng = 1600)}
LifeRawCfgs == RawCfgs

-----------------------------------------------------------------------------
(* The driver: it resolves the data set type, then invokes the routine once *)
(* per phase: INIT once, PROCESS once per volume, POST zero or more times.  *)

NextPhases(last) ==
    IF last = -1 THEN {0}
    ELSE IF last = 0 THEN {1}
    ELSE {1, 2} \ (IF last = 2 THEN {1} ELSE {})

Enter(ps) ==
    /\ stage \in {"ready", "returned"}
    /\ raised = None
    /\ ps \in NextPhases(procstatus)

Logged(log) ==
    IF log /\ stage = "returned" /\ procstatus = 1
    THEN [kind |-> "call", dscfg |-> dscfg, radar |-> radar0, geo |-> geo,
          result |-> result, warnings |-> warnings, raised |-> raised]
    ELSE prev

Return(out, ps, cfg, v, g, log) ==
    /\ stage' = "returned"
    /\ procstatus' = ps
    /\ dscfg' = cfg
    /\ radar' = 1
    /\ radar0' = v
    /\ geo' = g
    /\ heap' = out.heap
    /\ result' = out.result
    /\ warnings' = out.warnings
    /\ raised' = out.raised
    /\ writes' = 0
    /\ prev' = Logged(log)
    /\ UNCHANGED <<dataset_type, func_name, dsformat>>

Init ==
    /\ stage = "config"
    /\ dataset_type = "None"
    /\ func_name = "None"
    /\ dsformat = "None"
    /\ procstatus = -1
    /\ dscfg = None
    /\ radar = 1
    /\ heap = [a \in Addrs |-> Free]
    /\ geo = None
    /\ result = None
    /\ warnings = <<>>
    /\ raised = None
    /\ radar0 = Free
    /\ writes = 0
    /\ prev = None

CallGetProcessType ==
    /\ stage = "config"
    /\ \E t \in DatasetTypes \cup OtherNames :
        LET out == get_process_type(t)
        IN  /\ dataset_type' = t
            /\ func_name' = out.func_name
            /\ dsformat' = out.dsformat
            /\ raised' = out.raised
            /\ stage' = IF out.raised = None THEN "ready" ELSE "halted"
    /\ UNCHANGED <<procstatus, dscfg, radar, heap, geo, result, warnings,
                   radar0, writes, prev>>

\* One step runs with one configuration and, unless the driver feeds it a
\* volume per PROCESS invocation (multi), with one volume: the first invocation
\* draws the inputs, the later ones are handed the same.
Again(multi) == stage = "returned" /\ ~multi

CallProcessRaw(Rs, Cs, multi) ==
    /\ func_name = "process_raw"
    /\ \E ps \in 0..2 :
        /\ Enter(ps)
        /\ \E v \in (IF Again(multi) THEN {radar0} ELSE Rs),
              cfg \in (IF Again(multi) THEN {dscfg} ELSE Cs) :
            Return(process_raw(ps, cfg, HeapWith(v), 1), ps, cfg, v, None, multi)

CallProcessSaveRadar(Rs, Cs, multi) ==
    /\ func_name = "process_save_radar"
    /\ \E ps \in 0..2 :
        /\ Enter(ps)
        /\ \E v \in (IF Again(multi) THEN {radar0} ELSE Rs),
              cfg \in (IF Again(multi) THEN {dscfg} ELSE Cs) :
            Return(process_save_radar(ps, cfg, HeapWith(v), 1), ps, cfg, v, None,
                   multi)

CallProcessPointMeasurement(Rs, Cs, multi) ==
    /\ func_name = "process_point_measurement"
    /\ \E ps \in 0..2 :
        /\ Enter(ps)
        /\ \E v \in (IF Again(multi) THEN {radar0} ELSE Rs),
              cfg \in (IF Again(multi) THEN {dscfg} ELSE Cs) :
            \E g \in (IF Again(multi) THEN {geo} ELSE Transforms(cfg)) :
                Return(process_point_measurement(ps, cfg, HeapWith(v), 1, g),
                       ps, cfg, v, g, multi)

\* the caller of a pass-through routine writes into the Radar object it got
MaxWrites == 1

ModifyReturned ==
    /\ stage = "returned"
    /\ result.kind = "Radar"
    /\ writes < MaxWrites
    /\ \E f \in DOMAIN heap[result.ref].fields :
        \E i \in 1..Len(heap[result.ref].azimuth), j \in 1..Len(heap[result.ref].range) :
            /\ heap[result.ref].fields[f][i][j] # -9999
            /\ heap' = [heap EXCEPT ![result.ref].fields[f][i][j] = -9999]
    /\ writes' = writes + 1
    /\ UNCHANGED <<stage, dataset_type, func_name, dsformat, procstatus, dscfg,
                   radar, geo, result, warnings, raised, radar0, prev>>

Next ==
    \/ CallGetProcessType
    \/ CallProcessRaw(Radars, RawCfgs, FALSE)
    \/ CallProcessSaveRadar(Radars, RawCfgs, FALSE)
    \/ CallProcessPointMeasurement(Radars, PointCfgs, FALSE)
    \/ ModifyReturned

Spec == Init /\ [][Next]_vars

NextLife ==
    \/ CallGetProcessType
    \/ CallProcessRaw(LifeRadars, LifeRawCfgs, TRUE)
    \/ CallProcessSaveRadar(LifeRadars, LifeRawCfgs, TRUE)
    \/ CallProcessPointMeasurement(LifeRadars, LifePointCfgs, TRUE)
    \/ ModifyReturned

SpecLife == Init /\ [][NextLife]_vars

-----------------------------------------------------------------------------
(* What the claims speak of *)

Done == stage = "returned"
PointStep == func_name = "process_point_measurement"
PassThroughStep == func_name \in {"process_raw", "process_save_radar"}

\* the field the configuration's datatype selects
SelectedField == get_fieldname_pyart(dscfg.datatype[1][2])
FieldPresent == SelectedField \in DOMAIN radar0.fields

\* the target antenna coordinates of the invocation
ReqAz == IF dscfg.latlon THEN geo.az ELSE dscfg.azi
ReqEl == IF dscfg.latlon THEN geo.el ELSE dscfg.ele
ReqR  == IF dscfg.latlon THEN geo.r  ELSE dscfg.rng

Rays == 1..Len(radar0.azimuth)
Bins == 1..Len(radar0.range)

DAz(i) == Abs(radar0.azimuth[i] - ReqAz)
DEl(i) == Abs(radar0.elevation[i] - ReqEl)
DR(j)  == Abs(radar0.range[j] - ReqR)

\* the least distance of the target to a ray's azimuth, to a ray's elevation,
\* to a bin's range
MinDAz == CHOOSE d \in {DAz(i) : i \in Rays} : \A i \in Rays : d <= DAz(i)
MinDEl == CHOOSE d \in {DEl(i) : i \in Rays} : \A i \in Rays : d <= DEl(i)
MinDR  == CHOOSE d \in {DR(j) : j \in Bins} : \A j \in Bins : d <= DR(j)

WithinTolerances ==
    /\ MinDAz <= dscfg.AziTol
    /\ MinDEl <= dscfg.EleTol
    /\ MinDR <= dscfg.RngTol

\* ray i is the lowest-index ray of least summed azimuth and elevation distance
NearestRay(i) ==
    /\ \A k \in Rays : DAz(i) + DEl(i) <= DAz(k) + DEl(k)
    /\ \A k \in Rays : k < i => DAz(k) + DEl(k) > DAz(i) + DEl(i)

\* bin j is the lowest-index bin of least range distance
NearestBin(j) ==
    /\ \A k \in Bins : DR(j) <= DR(k)
    /\ \A k \in Bins : k < j => DR(k) > DR(j)

Used == result.used_antenna_coordinates_az_el_r

-----------------------------------------------------------------------------
\* C1: get_process_type returns a (function name, format) pair for every
\* recognised data set type; for every other name it raises an error that
\* carries the name, returns no pair and the pipeline stops.
C1_RegistryTotal ==
    stage # "config" =>
        \/ /\ dataset_type \in DatasetTypes
           /\ stage # "halted"
           /\ func_name # "None"
           /\ dsformat # "None"
        \/ /\ dataset_type \notin DatasetTypes
           /\ stage = "halted"
           /\ func_name = "None"
           /\ dsformat = "None"
           /\ raised.kind = "ValueError"
           /\ raised.msg[Len(raised.msg)] = dataset_type

C1_Witness ==
    /\ stage = "halted"
    /\ dataset_type = "NOT_A_REAL_OP"
    /\ raised = [kind |-> "ValueError",
                 msg |-> <<"ERROR: Unknown dataset type ", "NOT_A_REAL_OP">>]

\* C2: the format of a recognised data set type is the volume format 'VOL',
\* but for two: the point measurement has the time series format of point
\* records, 'TIMESERIES', and the sun hits have their own, 'SUN_HITS'.
C2_DefaultFormat ==
    (stage # "config" /\ dataset_type \in DatasetTypes) =>
        /\ dataset_type = "POINT_MEASUREMENT" => dsformat = "TIMESERIES"
        /\ dataset_type = "SUN_HITS" => dsformat = "SUN_HITS"
        /\ dataset_type \notin {"POINT_MEASUREMENT", "SUN_HITS"} => dsformat = "VOL"

C2_Witness ==
    /\ stage = "ready"
    /\ dataset_type = "SUN_HITS"
    /\ func_name = "process_sun_hits"
    /\ dsformat = "SUN_HITS"

\* C3: an INIT or POST invocation of process_raw, process_save_radar or
\* process_point_measurement returns nothing, whatever it is handed; a result
\* comes from a PROCESS invocation only, and it is the result of the earlier
\* PROCESS invocation that was handed the same volume and configuration (the
\* coordinate transforms are functions of the two, so equal inputs come with
\* equal transformed coordinates).
C3_Lifecycle ==
    /\ (Done /\ procstatus \in {0, 2}) =>
            (result = None /\ warnings = <<>> /\ raised = None)
    /\ result # None => (Done /\ procstatus = 1)
    /\ (Done /\ procstatus = 1 /\ prev # None /\ prev.dscfg = dscfg
            /\ prev.radar = radar0 /\ prev.geo = geo) =>
            (prev.result = result /\ prev.warnings = warnings
                /\ prev.raised = raised)

C3_Witness ==
    /\ Done
    /\ procstatus = 2
    /\ result = None
    /\ prev # None
    /\ prev.result # None
    /\ prev.dscfg = dscfg
    /\ prev.radar = radar0

\* C4: a PROCESS invocation of process_point_measurement on a volume without
\* the selected field warns once that the field is not available and returns
\* nothing, without raising, in either input mode and whatever the
\* coordinates and tolerances are.
C4_FieldMissing ==
    (Done /\ PointStep /\ procstatus = 1 /\ ~FieldPresent) =>
        (result = None /\ raised = None /\ warnings = <<FieldWarning>>)

C4_Witness ==
    /\ Done /\ PointStep /\ procstatus = 1
    /\ ~FieldPresent
    /\ ~dscfg.latlon
    /\ WithinTolerances
    /\ warnings = <<FieldWarning>>

\* C5: in antenna mode, with the field present and the three tolerances met,
\* a PROCESS invocation raises nothing and returns a record whose requested
\* antenna coordinates are the configured (azi, ele, rng) and whose
\* geographic coordinates are those the inverse transforms give.
C5_AntennaModeRecord ==
    (Done /\ PointStep /\ procstatus = 1 /\ ~dscfg.latlon /\ FieldPresent
        /\ WithinTolerances) =>
        /\ raised = None
        /\ result.kind = "dict"
        /\ result.antenna_coordinates_az_el_r = <<dscfg.azi, dscfg.ele, dscfg.rng>>
        /\ result.point_coordinates_WGS84_lon_lat_alt = <<geo.lon, geo.lat, geo.alt>>

\* C6: with the field present, a PROCESS invocation returns a record if and
\* only if the least azimuth, elevation and range distances of the target are
\* each at most their tolerance.
C6_RecordIffWithinTolerances ==
    (Done /\ PointStep /\ procstatus = 1 /\ FieldPresent) =>
        (result.kind = "dict" <=> WithinTolerances)

\* C7: a returned record is that of the lowest-index ray of least summed
\* azimuth and elevation distance and of the lowest-index bin of least range
\* distance: its value is the field's value there, its time that ray's time,
\* its used coordinates that ray's azimuth and elevation and that bin's
\* range, and its requested coordinates the target's.
C7_SelectedBin ==
    (Done /\ PointStep /\ result.kind = "dict") =>
        \E i \in Rays, j \in Bins :
            /\ NearestRay(i)
            /\ NearestBin(j)
            /\ result.value = radar0.fields[SelectedField][i][j]
            /\ result.time = num2date(radar0.time.data[i], radar0.time.units,
                                      radar0.time.calendar)
            /\ Used = <<radar0.azimuth[i], radar0.elevation[i], radar0.range[j]>>
            /\ result.antenna_coordinates_az_el_r = <<ReqAz, ReqEl, ReqR>>

C7_Witness ==
    /\ Done /\ PointStep /\ result.kind = "dict"
    /\ radar0.azimuth = <<10, 10>>
    /\ radar0.elevation = <<1, 5>>
    /\ radar0.range = <<500, 1500>>
    /\ <<ReqAz, ReqEl, ReqR>> = <<10, 4, 1600>>
    /\ Used = <<10, 5, 1500>>
    /\ result.value = radar0.fields[SelectedField][2][2]

\* C8: process_raw and process_save_radar leave the input Radar object as it
\* was; what a PROCESS invocation returns is another object with the same
\* content, and a later write into it does not reach the input.
C8_NoMutation ==
    (Done /\ PassThroughStep) =>
        /\ heap[radar] = radar0
        /\ procstatus = 1 =>
            /\ result.kind = "Radar"
            /\ result.ref # radar
            /\ writes = 0 => heap[result.ref] = radar0

C8_Witness ==
    /\ Done /\ PassThroughStep /\ procstatus = 1
    /\ result.kind = "Radar"
    /\ writes = 1
    /\ heap[result.ref] # radar0
    /\ heap[radar] = radar0

\* C9: an invocation warns at most once; a tolerance warning comes with no
\* result, names the first axis, in the order azimuth, elevation, range,
\* whose least distance exceeds its tolerance, and carries the requested
\* (az, el, r) and that least distance; a PROCESS invocation that finds the
\* field and returns nothing without raising has warned so.
C9_ToleranceWarning ==
    (Done /\ PointStep /\ procstatus = 1) =>
        /\ Len(warnings) <= 1
        /\ (FieldPresent /\ raised = None /\ result = None) =>
                (Len(warnings) = 1 /\ warnings[1].kind = "tolerance")
        /\ \A n \in 1..Len(warnings) :
            warnings[n].kind = "tolerance" =>
                /\ result = None
                /\ raised = None
                /\ <<warnings[n].az, warnings[n].el, warnings[n].r>>
                       = <<ReqAz, ReqEl, ReqR>>
                /\ IF MinDAz > dscfg.AziTol
                   THEN warnings[n].axis = "azimuth" /\ warnings[n].d = MinDAz
                   ELSE IF MinDEl > dscfg.EleTol
                   THEN warnings[n].axis = "elevation" /\ warnings[n].d = MinDEl
                   ELSE /\ MinDR > dscfg.RngTol
                        /\ warnings[n].axis = "range bin"
                        /\ warnings[n].d = MinDR

C9_Witness ==
    /\ Done /\ PointStep /\ procstatus = 1
    /\ MinDAz > dscfg.AziTol
    /\ MinDEl > dscfg.EleTol
    /\ MinDR > dscfg.RngTol
    /\ warnings = <<ToleranceWarning("azimuth", ReqAz, ReqEl, ReqR, MinDAz)>>

\* C10, as claimed: the bin a returned record used is within the tolerance of
\* the requested point on every axis.
C10_UsedWithinEveryTolerance ==
    (Done /\ PointStep /\ result.kind = "dict") =>
        /\ Abs(Used[1] - ReqAz) <= dscfg.AziTol
        /\ Abs(Used[2] - ReqEl) <= dscfg.EleTol
        /\ Abs(Used[3] - ReqR) <= dscfg.RngTol

\* C10, as amended: the range a returned record used is within RngTol of the
\* requested range; some ray is within AziTol of the requested azimuth and
\* some ray within EleTol of the requested elevation, and the ray used is a
\* ray of least summed azimuth and elevation distance.
C10_UsedRangeWithinTolerance ==
    (Done /\ PointStep /\ result.kind = "dict") =>
        /\ Abs(Used[3] - ReqR) <= dscfg.RngTol
        /\ \E i \in Rays : DAz(i) <= dscfg.AziTol
        /\ \E i \in Rays : DEl(i) <= dscfg.EleTol
        /\ \A k \in Rays :
            Abs(Used[1] - ReqAz) + Abs(Used[2] - ReqEl) <= DAz(k) + DEl(k)

C10_Witness ==
    /\ Done /\ PointStep /\ result.kind = "dict"
    /\ Abs(Used[2] - ReqEl) > dscfg.EleTol
    /\ Abs(Used[1] - ReqAz) <= dscfg.AziTol
    /\ Abs(Used[3] - ReqR) <= dscfg.RngTol

====
